---------------------------- MODULE Spec2Model ----------------------------
(***************************************************************************)
(* A model of the CLIST contest calendar helper: resource-filter           *)
(* resolution, the paginated contest fetch, deduplication / sort /         *)
(* truncation, the two entry points (clist_to_ics.main, clist_build.main)  *)
(* and ICS line folding.                                                   *)
(*                                                                         *)
(* Strings that the code takes apart (resource tokens, calendar lines) are *)
(* sequences of one-character strings.                                     *)
(***************************************************************************)
EXTENDS Integers, Sequences, FiniteSets, TLC

VARIABLES
    \* ---- the pipeline (clist_to_ics.main / clist_build.main) ----
    entry,              \* "cli" (clist_to_ics.main) or "build" (clist_build.main)
    has_credentials,    \* username and api_key are both non-empty
    resources,          \* args.resources / DEFAULT_RESOURCES
    per_resource_limit, \* args.per_resource_limit / PER_RESOURCE_LIMIT
    max_contests,       \* args.max_contests (0 in clist_build: no truncation there)
    pc,                 \* position in main
    exit,               \* how the process ended
    resource_filters,   \* result of resolve_resource_filters
    fi,                 \* index of the filter being fetched (the for loop of line 225)
    fetched,            \* fetch_contests_for_resource: fetched
    offset,             \* fetch_contests_for_resource: offset
    contests,           \* fetch_contests_for_resources: contests
    served,             \* raw objects the API has served so far in this run
    api_calls,          \* api_get calls issued so far in this run
    returns,            \* calls of fetch_contests_for_resource that have returned
    last_req,           \* the latest api_get call
    last_resp,          \* its response: kind, number of objects, next
    last_loop,          \* what the for loop of lines 278-286 did with that response
    last_returned,      \* the latest return of fetch_contests_for_resource
    diagnostics,        \* "Skipping contest due to parse error" lines on stderr
    ics_input,          \* the list handed to generate_ics
    generator_invoked,  \* generate_ics was called
    output_written,     \* the output file was written
    \* ---- pure functions run on their own ----
    rs,                 \* resolve_resource_filters, one loop iteration per step
    dd,                 \* deduplicate_contests, one loop iteration per step
    fl,                 \* fold_ics_line, one loop iteration per step
    pr                  \* parse_contest on a whole payload

pipeline_vars == <<entry, has_credentials, resources, per_resource_limit, max_contests,
                   pc, exit, resource_filters, fi, fetched, offset, contests, served,
                   api_calls, returns, last_req, last_resp, last_loop, last_returned,
                   diagnostics, ics_input, generator_invoked, output_written>>

vars == <<pipeline_vars, rs, dd, fl, pr>>

-----------------------------------------------------------------------------
(* Bounds of the model.                                                    *)

MaxTokens == 3      \* tokens in one resolve_resource_filters call
MaxPage == 2        \* raw objects in one API page
MaxObjects == 3     \* raw objects the API serves in one run
MaxId == 2          \* contest ids the API serves are 1..MaxId
MaxMergedId == 3    \* contest ids in a list given to the merge are 1..MaxMergedId
MaxStart == 2       \* start times in such a list are 1..MaxStart
MaxLimit == 2       \* --per-resource-limit is 0..MaxLimit
MaxContests == 2    \* --max-contests is 0..MaxContests
MaxMerged == 4      \* contests in a list given to deduplicate_contests or to the merge
MaxLineLen == 230   \* characters in a line given to fold_ics_line

Min(a, b) == IF a <= b THEN a ELSE b

-----------------------------------------------------------------------------
(* Characters and the str methods the code uses.                           *)

Uppers == <<"A", "B", "C", "D", "E", "F", "G", "H", "I", "J", "K", "L", "M",
            "N", "O", "P", "Q", "R", "S", "T", "U", "V", "W", "X", "Y", "Z">>
Lowers == <<"a", "b", "c", "d", "e", "f", "g", "h", "i", "j", "k", "l", "m",
            "n", "o", "p", "q", "r", "s", "t", "u", "v", "w", "x", "y", "z">>
Digits == <<"0", "1", "2", "3", "4", "5", "6", "7", "8", "9">>
Whitespace == {" ", "\t"}

\* str.strip(): leading and trailing whitespace removed
RECURSIVE lstrip(_)
lstrip(s) == IF s # <<>> /\ Head(s) \in Whitespace THEN lstrip(Tail(s)) ELSE s

RECURSIVE rstrip(_)
rstrip(s) == IF s # <<>> /\ s[Len(s)] \in Whitespace
             THEN rstrip(SubSeq(s, 1, Len(s) - 1)) ELSE s

strip(s) == rstrip(lstrip(s))

\* str.lower()
lower_char(c) == IF \E i \in 1..Len(Uppers) : Uppers[i] = c
                 THEN Lowers[CHOOSE i \in 1..Len(Uppers) : Uppers[i] = c]
                 ELSE c

lower(s) == [i \in 1..Len(s) |-> lower_char(s[i])]

\* str.isdigit(): non-empty and made of digits only
isdigit(s) == s # <<>> /\ \A i \in 1..Len(s) : \E d \in 1..Len(Digits) : Digits[d] = s[i]

digit_value(c) == (CHOOSE d \in 1..Len(Digits) : Digits[d] = c) - 1

\* int(value) of a digit string
RECURSIVE int(_)
int(s) == IF s = <<>> THEN 0
          ELSE 10 * int(SubSeq(s, 1, Len(s) - 1)) + digit_value(s[Len(s)])

\* "." in value
has_dot(s) == \E i \in 1..Len(s) : s[i] = "."

-----------------------------------------------------------------------------
(* Module constants of clist_to_ics.py and clist_build.py.                 *)

PAGE_SIZE == 100
PER_RESOURCE_LIMIT == 50

\* RESOURCE_ALIASES as <<alias, hostname>> pairs
RESOURCE_ALIASES ==
    { <<<<"l", "e", "e", "t", "c", "o", "d", "e">>,
        <<"l", "e", "e", "t", "c", "o", "d", "e", ".", "c", "o", "m">>>>,
      <<<<"n", "o", "w", "c", "o", "d", "e", "r">>,
        <<"a", "c", ".", "n", "o", "w", "c", "o", "d", "e", "r", ".", "c", "o", "m">>>>,
      <<<<"n", "k">>,
        <<"a", "c", ".", "n", "o", "w", "c", "o", "d", "e", "r", ".", "c", "o", "m">>>>,
      <<<<"l", "c">>,
        <<"l", "e", "e", "t", "c", "o", "d", "e", ".", "c", "o", "m">>>>,
      <<<<"c", "o", "d", "e", "f", "o", "r", "c", "e", "s">>,
        <<"c", "o", "d", "e", "f", "o", "r", "c", "e", "s", ".", "c", "o", "m">>>>,
      <<<<"c", "f">>,
        <<"c", "o", "d", "e", "f", "o", "r", "c", "e", "s", ".", "c", "o", "m">>>>,
      <<<<"a", "t", "c", "o", "d", "e", "r">>,
        <<"a", "t", "c", "o", "d", "e", "r", ".", "j", "p">>>>,
      <<<<"a", "c">>,
        <<"a", "t", "c", "o", "d", "e", "r", ".", "j", "p">>>>,
      <<<<"l", "u", "o", "g", "u">>,
        <<"l", "u", "o", "g", "u", ".", "c", "o", "m", ".", "c", "n">>>>,
      <<<<"l", "g">>,
        <<"l", "u", "o", "g", "u", ".", "c", "o", "m", ".", "c", "n">>>> }

DEFAULT_RESOURCES ==
    << <<"l", "e", "e", "t", "c", "o", "d", "e">>,
       <<"c", "o", "d", "e", "f", "o", "r", "c", "e", "s">>,
       <<"a", "t", "c", "o", "d", "e", "r">>,
       <<"l", "u", "o", "g", "u">>,
       <<"n", "o", "w", "c", "o", "d", "e", "r">> >>

-----------------------------------------------------------------------------
(* resolve_resource_filters                                                *)

\* RESOURCE_ALIASES.get(key): the hostname, or <<>> for None
AliasGet(key) == IF \E p \in RESOURCE_ALIASES : p[1] = key
                 THEN (CHOOSE p \in RESOURCE_ALIASES : p[1] = key)[2]
                 ELSE <<>>

\* A filter (kind, value): value is host for "resource", id for "resource_id".
ResourceFilter(host) == [kind |-> "resource", host |-> host, id |-> 0]
ResourceIdFilter(n) == [kind |-> "resource_id", host |-> <<>>, id |-> n]

\* the if / elif chain of one stripped, non-empty token
ClassifyToken(value) ==
    LET alias == AliasGet(lower(value)) IN
    IF alias # <<>> THEN [ok |-> TRUE, key_val |-> ResourceFilter(alias)]
    ELSE IF isdigit(value) THEN [ok |-> TRUE, key_val |-> ResourceIdFilter(int(value))]
    ELSE IF has_dot(value) THEN [ok |-> TRUE, key_val |-> ResourceFilter(value)]
    ELSE [ok |-> FALSE, key_val |-> ResourceFilter(<<>>)]

\* the seen set never consulted
IsNewFilterAlways(key_val, seen) == TRUE

\* "if key_val not in seen": whether the filter is appended
IsNewFilter(key_val, seen) == key_val \notin seen

NoError == [type |-> "none", what |-> "none", token |-> <<>>]

ResolveStart == [resolved |-> <<>>, seen |-> {}, error |-> NoError]

\* one iteration of the for loop over the tokens
ResolveIteration(st, raw) ==
    LET value == strip(raw) IN
    IF value = <<>> THEN st
    ELSE LET c == ClassifyToken(value) IN
         IF ~c.ok
         THEN [st EXCEPT !.error = [type |-> "ClistApiError",
                                    what |-> "Unknown resource",
                                    token |-> value]]
         ELSE IF IsNewFilter(c.key_val, st.seen)
              THEN [st EXCEPT !.resolved = Append(@, c.key_val),
                              !.seen = @ \cup {c.key_val}]
              ELSE st

\* after the loop
ResolveEnd(st) ==
    IF st.resolved = <<>>
    THEN [st EXCEPT !.error = [type |-> "ClistApiError",
                               what |-> "No valid resources resolved",
                               token |-> <<>>]]
    ELSE st

RECURSIVE ResolveLoop(_, _, _)
ResolveLoop(st, toks, i) ==
    IF i > Len(toks) THEN ResolveEnd(st)
    ELSE LET st2 == ResolveIteration(st, toks[i]) IN
         IF st2.error.type # "none" THEN st2 ELSE ResolveLoop(st2, toks, i + 1)

\* the whole call: [resolved, seen, error]; error.type = "none" when it returns
resolve_resource_filters(toks) == ResolveLoop(ResolveStart, toks, 1)

-----------------------------------------------------------------------------
(* Raw API payloads and parse_contest                                      *)

\* A payload field: present and well-formed (val), present but malformed, or absent.
Field(v) == [state |-> "ok", val |-> v]
Malformed == [state |-> "malformed", val |-> 0]
Absent == [state |-> "absent", val |-> 0]

Payload(id, start, end) == [id |-> id, start |-> start, end |-> end]

Contest(id, start, end) == [contest_id |-> id, start |-> start, end |-> end]

NoContest == Contest(0, 0, 0)

\* line 297, int(payload["id"]): a missing key raises KeyError, a value that is
\* no integer raises ValueError
ParseId(payload) ==
    IF payload.id.state = "absent" THEN "KeyError"
    ELSE IF payload.id.state = "malformed" THEN "ValueError"
    ELSE "ok"

\* lines 299-300 and 334-347, parse_iso_datetime(str(payload.get(key))): an absent
\* key gives the string "None", which like any other unparseable text raises
\* ValueError
ParseTime(field) == IF field.state = "ok" THEN "ok" ELSE "ValueError"

\* parse_contest: the Contest, or the exception it raises
parse_contest(payload) ==
    IF ParseId(payload) # "ok"
    THEN [raised |-> ParseId(payload), contest |-> NoContest]
    ELSE IF ParseTime(payload.start) # "ok"
    THEN [raised |-> ParseTime(payload.start), contest |-> NoContest]
    ELSE IF ParseTime(payload.end) # "ok"
    THEN [raised |-> ParseTime(payload.end), contest |-> NoContest]
    ELSE [raised |-> "none",
          contest |-> Contest(payload.id.val, payload.start.val, payload.end.val)]

\* "except ValueError": the exceptions the for loop of the fetch swallows
CaughtByFetch(exc) == exc = "ValueError"

-----------------------------------------------------------------------------
(* parse_contest on a whole payload: title, resource_id and resource_name  *)

\* An optional string field: absent (payload.get gives None, as for a JSON null)
\* or a string.
NoText == [present |-> FALSE, text |-> <<>>]
Text(s) == [present |-> TRUE, text |-> s]

\* the truth value "or" looks at: a non-empty string
Truthy(field) == field.present /\ field.text # <<>>

\* The resource field: absent, a string, or an object with name, short_name, host
\* and id.
NoResource == [kind |-> "absent", text |-> <<>>, name |-> NoText,
               short_name |-> NoText, host |-> NoText, id |-> Absent]
StrResource(s) == [NoResource EXCEPT !.kind = "str", !.text = s]
DictResource(name, short_name, host, id) ==
    [kind |-> "dict", text |-> <<>>, name |-> name, short_name |-> short_name,
     host |-> host, id |-> id]

FullPayload(id, start, end, event, title, resource, resource_id) ==
    [id |-> id, start |-> start, end |-> end, event |-> event, title |-> title,
     resource |-> resource, resource_id |-> resource_id]

\* str(n) of a non-negative integer
RECURSIVE str_int(_)
str_int(n) == IF n < 10 THEN <<Digits[n + 1]>>
              ELSE str_int(n \div 10) \o <<Digits[(n % 10) + 1]>>

\* line 298: event, else title, else "Contest <id>"; not yet stripped
TitleOf(payload, contest_id) ==
    IF Truthy(payload.event) THEN payload.event.text
    ELSE IF Truthy(payload.title) THEN payload.title.text
    ELSE <<"C", "o", "n", "t", "e", "s", "t", " ">> \o str_int(contest_id)

\* line 309: resource_info is the resource field when it is a dict, else {}
ResourceInfo(resource) ==
    IF resource.kind = "dict" THEN resource
    ELSE DictResource(NoText, NoText, NoText, Absent)

\* a value of the "or" chain of lines 311-313 is truthy: present and not 0
TruthyId(field) == field.state = "malformed" \/ (field.state = "ok" /\ field.val # 0)

\* lines 310-314: int(resource_id or resource.id or 0); a truthy value that is no
\* integer raises ValueError
ResourceIdOf(payload) ==
    LET info == ResourceInfo(payload.resource)
        chosen == IF TruthyId(payload.resource_id) THEN payload.resource_id
                  ELSE IF TruthyId(info.id) THEN info.id
                  ELSE Field(0)
    IN IF chosen.state = "malformed" THEN [raised |-> "ValueError", val |-> 0]
       ELSE [raised |-> "none", val |-> chosen.val]

\* bool(resource_field): a non-empty string or a dict with at least one key
TruthyResource(resource) ==
    \/ resource.kind = "str" /\ resource.text # <<>>
    \/ resource.kind = "dict" /\ (\/ resource.name.present
                                  \/ resource.short_name.present
                                  \/ resource.host.present
                                  \/ resource.id.state # "absent")

\* str(resource_field): the string itself, or the braces of a dict around its
\* items (here: around the texts of its string values)
StrOfResource(resource) ==
    IF resource.kind = "str" THEN resource.text
    ELSE <<"{">> \o resource.name.text \o resource.short_name.text
                 \o resource.host.text \o <<"}">>

\* lines 315-321: name, else short_name, else host, else the resource field
\* itself, else "Resource <resource_id>"; not yet stripped
ResourceNameOf(payload, resource_id) ==
    LET info == ResourceInfo(payload.resource) IN
    IF Truthy(info.name) THEN info.name.text
    ELSE IF Truthy(info.short_name) THEN info.short_name.text
    ELSE IF Truthy(info.host) THEN info.host.text
    ELSE IF TruthyResource(payload.resource) THEN StrOfResource(payload.resource)
    ELSE <<"R", "e", "s", "o", "u", "r", "c", "e", " ">> \o str_int(resource_id)

\* lines 325 and 330: what the Contest keeps of a text
StoredText(s) == strip(s)

NoRecord == [contest_id |-> 0, title |-> <<>>, start |-> 0, end |-> 0,
             resource_id |-> 0, resource_name |-> <<>>]

\* parse_contest, lines 296-331, on a whole payload (url left out): the record, or
\* the exception raised
parse_contest_full(payload) ==
    LET required == parse_contest(Payload(payload.id, payload.start, payload.end))
        rid == ResourceIdOf(payload)
    IN IF required.raised # "none" THEN [raised |-> required.raised, contest |-> NoRecord]
       ELSE IF rid.raised # "none" THEN [raised |-> rid.raised, contest |-> NoRecord]
       ELSE [raised |-> "none",
             contest |-> [contest_id |-> required.contest.contest_id,
                          title |-> StoredText(TitleOf(payload, required.contest.contest_id)),
                          start |-> required.contest.start,
                          end |-> required.contest.end,
                          resource_id |-> rid.val,
                          resource_name |-> StoredText(ResourceNameOf(payload, rid.val))]]

-----------------------------------------------------------------------------
(* fetch_contests_for_resource                                             *)

\* line 255
Remaining(limit, n) == IF limit # 0 THEN limit - n ELSE PAGE_SIZE

\* line 256: the loop-top break
CapExhausted(limit, n) == limit # 0 /\ Remaining(limit, n) <= 0

\* line 259
RequestLimit(limit, n) == IF limit = 0 THEN PAGE_SIZE ELSE Min(PAGE_SIZE, Remaining(limit, n))

\* the cap compared with > instead of >=
CapReachedLate(limit, n) == limit # 0 /\ n > limit

\* line 285: the mid-page return
CapReached(limit, n) == limit # 0 /\ n >= limit

\* line 275: "if not objects"
PageIsEmpty(resp) == resp.objects = <<>>

\* line 290: data.get("meta", {}).get("next") is truthy
HasNext(resp) == resp.next = "url"

\* the offset advanced by the records kept instead of the objects received
NextOffsetByKept(offset_, objects) ==
    offset_ + Cardinality({i \in 1..Len(objects) :
                              parse_contest(objects[i]).raised = "none"})

\* line 288: offset += len(objects)
NextOffset(offset_, objects) == offset_ + Len(objects)

\* The for loop of lines 278-286 from object i on.  outcome: "exhausted" (the loop
\* ran to the end of the page), "return" (line 286) or the exception that left it;
\* seen: how many objects of the page the loop looked at; skipped: diagnostics
\* printed.
RECURSIVE ForLoop(_, _, _, _, _)
ForLoop(acc, objects, i, limit, skipped) ==
    IF i > Len(objects)
    THEN [fetched |-> acc, outcome |-> "exhausted", seen |-> Len(objects),
          skipped |-> skipped]
    ELSE LET r == parse_contest(objects[i]) IN
         IF r.raised # "none"
         THEN IF CaughtByFetch(r.raised)
              THEN ForLoop(acc, objects, i + 1, limit, skipped + 1)
              ELSE [fetched |-> acc, outcome |-> r.raised, seen |-> i,
                    skipped |-> skipped]
         ELSE LET acc2 == Append(acc, r.contest) IN
              IF CapReached(limit, Len(acc2))
              THEN [fetched |-> acc2, outcome |-> "return", seen |-> i,
                    skipped |-> skipped]
              ELSE ForLoop(acc2, objects, i + 1, limit, skipped)

-----------------------------------------------------------------------------
(* deduplicate_contests and the sort / truncation of main                  *)

\* a dict that keeps the value it already has for a key
DictSetKeepFirst(by_id, contest) ==
    IF \E i \in 1..Len(by_id) : by_id[i].contest_id = contest.contest_id
    THEN by_id
    ELSE Append(by_id, contest)

\* by_id[contest.contest_id] = contest on a dict kept as its items in insertion
\* order: an existing key keeps its place and takes the new value
DictSet(by_id, contest) ==
    IF \E i \in 1..Len(by_id) : by_id[i].contest_id = contest.contest_id
    THEN [i \in 1..Len(by_id) |->
             IF by_id[i].contest_id = contest.contest_id THEN contest ELSE by_id[i]]
    ELSE Append(by_id, contest)

RECURSIVE DedupLoop(_, _, _)
DedupLoop(by_id, cs, i) ==
    IF i > Len(cs) THEN by_id ELSE DedupLoop(DictSet(by_id, cs[i]), cs, i + 1)

\* list(by_id.values())
deduplicate_contests(cs) == DedupLoop(<<>>, cs, 1)

\* the sort key of lines 101 / 48
SortKey(contest) == contest.start

\* an insertion that puts x before the elements of equal key: ties come out reversed
SortedInsertBeforeTies(sorted, x) ==
    LET before == Cardinality({i \in 1..Len(sorted) : SortKey(sorted[i]) < SortKey(x)})
    IN SubSeq(sorted, 1, before) \o <<x>> \o SubSeq(sorted, before + 1, Len(sorted))

\* where a stable sort puts x in an already sorted list: after every element whose
\* key is not greater
SortedInsert(sorted, x) ==
    LET before == Cardinality({i \in 1..Len(sorted) : SortKey(sorted[i]) <= SortKey(x)})
    IN SubSeq(sorted, 1, before) \o <<x>> \o SubSeq(sorted, before + 1, Len(sorted))

RECURSIVE SortLoop(_, _, _)
SortLoop(sorted, cs, i) ==
    IF i > Len(cs) THEN sorted ELSE SortLoop(SortedInsert(sorted, cs[i]), cs, i + 1)

\* list.sort(key=lambda contest: contest.start), a stable sort
sort_by_start(cs) == SortLoop(<<>>, cs, 1)

\* lines 103-104 of clist_to_ics.main; clist_build.main has no such step
Truncate(deduped, limit) ==
    IF limit # 0 /\ Len(deduped) > limit
    THEN SubSeq(deduped, 1, limit)   \* limit > 0 for every input the model draws
    ELSE deduped

-----------------------------------------------------------------------------
(* The API as the fetch sees it                                            *)

\* well-formed objects: contest i starts at i and ends at i + 1
OkPayloads == {Payload(Field(i), Field(i), Field(i + 1)) : i \in 1..MaxId}

BadPayloads == { Payload(Absent, Field(1), Field(2)),       \* no "id" key
                 Payload(Malformed, Field(1), Field(2)),    \* "id" is not an integer
                 Payload(Field(1), Absent, Field(2)) }      \* no "start" key

ServedPayloads == OkPayloads \cup BadPayloads

Pages(n) == UNION {[1..k -> ServedPayloads] : k \in 0..n}

\* What urlopen + json.loads can give for one request.  objects is <<>> also when
\* the key is absent (data.get("objects", [])); next is "none" when meta or
\* meta.next is absent, null or otherwise falsy.
\* A failed request: a non-2xx answer, no connection, a body that is no JSON, a
\* body that is no UTF-8.
ApiFailures == {"HTTPError", "URLError", "JSONDecodeError", "UnicodeDecodeError"}

\* the "except" clauses of api_get, which re-raise as ClistApiError
WrappedByApiGet == {"HTTPError", "URLError", "JSONDecodeError"}

PageResponse(objects, next) == [kind |-> "page", objects |-> objects, next |-> next]

FailureResponse(kind) == [kind |-> kind, objects |-> <<>>, next |-> "none"]

ApiResponses(budget) ==
    {PageResponse(o, n) : o \in Pages(Min(MaxPage, budget)), n \in {"url", "none"}}
        \cup {FailureResponse(k) : k \in ApiFailures}

\* api_get without its "except error.URLError" clause turned into an empty answer
api_get_unreachable_ignored(resp) ==
    IF resp.kind \in WrappedByApiGet \ {"URLError"} THEN "ClistApiError"
    ELSE IF resp.kind \in ApiFailures \ {"URLError"} THEN resp.kind
    ELSE "none"

\* api_get, lines 373-385: the exception it raises, "none" when it returns the
\* page.  payload.decode("utf-8") of line 383 raises UnicodeDecodeError, which the
\* "except json.JSONDecodeError" of line 384 does not catch.
api_get(resp) ==
    IF resp.kind \in WrappedByApiGet THEN "ClistApiError"
    ELSE IF resp.kind \in ApiFailures THEN resp.kind
    ELSE "none"

-----------------------------------------------------------------------------
(* The two entry points                                                    *)

Running == [code |-> -1, via |-> "running", what |-> "none"]
SysExit(msg) == [code |-> 1, via |-> "sys.exit", what |-> msg]     \* sys.exit(str)
Uncaught(exc) == [code |-> 1, via |-> "uncaught", what |-> exc]    \* traceback
Returned(msg) == [code |-> 0, via |-> "return", what |-> msg]      \* main returns

NoRequest == [filter |-> 0, offset |-> 0, limit |-> 0, count |-> 0]
NoResponse == [kind |-> "none", size |-> 0, next |-> "none"]
NoLoop == [outcome |-> "none", seen |-> 0, skipped |-> 0]
NoReturn == [filter |-> 0, size |-> 0, cause |-> "none"]

IdleRs == [resources |-> <<>>, i |-> 0, st |-> ResolveStart, pc |-> "idle"]
IdleDd == [contests |-> <<>>, i |-> 0, by_id |-> <<>>, result |-> <<>>, pc |-> "idle"]
IdleFl == [line |-> <<>>, segments |-> <<>>, remainder |-> <<>>, result |-> <<>>,
           pc |-> "idle"]
IdlePr == [payload |-> FullPayload(Absent, Absent, Absent, NoText, NoText, NoResource,
                                   Absent),
           result |-> [raised |-> "none", contest |-> NoRecord], pc |-> "idle"]

\* --resources values the command line is run with
CliResources ==
    { <<<<"c", "f">>>>,
      <<<<" ", "C", "F", " ">>, <<"c", "o", "d", "e", "f", "o", "r", "c", "e", "s", ".", "c", "o", "m">>,
        <<"7">>>>,
      <<<<"l", "c">>, <<"f", "o", "o">>>>,
      <<<<" ", " ">>>> }

\* the empty check left out
NothingFetchedIgnored(cs) == FALSE

\* "if not contests" of clist_to_ics.main line 97 and clist_build.main line 43
NothingFetched(cs) == cs = <<>>

PipelineStart ==
    /\ pc = "start"
    /\ exit = Running
    /\ resource_filters = <<>>
    /\ fi = 0
    /\ fetched = <<>>
    /\ offset = 0
    /\ contests = <<>>
    /\ served = 0
    /\ api_calls = 0
    /\ returns = 0
    /\ last_req = NoRequest
    /\ last_resp = NoResponse
    /\ last_loop = NoLoop
    /\ last_returned = NoReturn
    /\ diagnostics = 0
    /\ ics_input = <<>>
    /\ generator_invoked = FALSE
    /\ output_written = FALSE

Init ==
    /\ entry \in {"cli", "build"}
    /\ has_credentials \in BOOLEAN
    /\ IF entry = "cli"
       THEN /\ resources \in CliResources
            /\ per_resource_limit \in 0..MaxLimit \cup {PAGE_SIZE + 1}
            /\ max_contests \in 0..MaxContests
       ELSE /\ resources = DEFAULT_RESOURCES
            /\ per_resource_limit = PER_RESOURCE_LIMIT
            /\ max_contests = 0
    /\ PipelineStart
    /\ rs = IdleRs
    /\ pr = IdlePr
    /\ dd = IdleDd
    /\ fl = IdleFl

\* clist_to_ics.main lines 69-85, clist_build.main lines 25-31: credentials, then
\* resolve_resource_filters.  Only clist_to_ics.main catches its ClistApiError.
Startup ==
    /\ pc = "start"
    /\ LET r == resolve_resource_filters(resources) IN
       IF ~has_credentials
       THEN /\ pc' = "exited"
            /\ exit' = SysExit("credentials required")
            /\ UNCHANGED <<resource_filters, fi>>
       ELSE IF r.error.type # "none"
       THEN /\ pc' = "exited"
            /\ exit' = IF entry = "cli" THEN SysExit(r.error.what)
                       ELSE Uncaught(r.error.type)
            /\ UNCHANGED <<resource_filters, fi>>
       ELSE /\ pc' = "fetching"
            /\ exit' = exit
            /\ resource_filters' = r.resolved
            /\ fi' = 1
    /\ UNCHANGED <<entry, has_credentials, resources, per_resource_limit, max_contests,
                   fetched, offset, contests, served, api_calls, returns, last_req,
                   last_resp, last_loop, last_returned, diagnostics, ics_input,
                   generator_invoked, output_written, rs, dd, fl, pr>>

\* fetch_contests_for_resource returns value: line 226 extends contests, and the
\* for loop of line 225 goes to the next filter or fetch_contests_for_resources
\* returns
FetchReturns(value, cause) ==
    /\ contests' = contests \o value
    /\ last_returned' = [filter |-> fi, size |-> Len(value), cause |-> cause]
    /\ returns' = returns + 1
    /\ fetched' = <<>>
    /\ offset' = 0
    /\ exit' = exit
    /\ IF fi < Len(resource_filters)
       THEN fi' = fi + 1 /\ pc' = "fetching"
       ELSE fi' = fi /\ pc' = "fetched"

\* an exception leaves fetch_contests_for_resource, fetch_contests_for_resources
\* and main: nothing on the way catches it
FetchRaises(exc) ==
    /\ pc' = "exited"
    /\ exit' = Uncaught(exc)
    /\ UNCHANGED <<contests, last_returned, returns, fetched, offset, fi>>

\* One round of the while loop of fetch_contests_for_resource (lines 254-291):
\* the loop-top check, one api_get and what the code does with its response.
FetchPage ==
    /\ pc = "fetching"
    /\ IF CapExhausted(per_resource_limit, Len(fetched))
       THEN /\ FetchReturns(fetched, "cap")
            /\ UNCHANGED <<served, api_calls, last_req, last_resp, last_loop, diagnostics>>
       ELSE \E resp \in ApiResponses(MaxObjects - served) :
            LET loop == ForLoop(fetched, resp.objects, 1, per_resource_limit, 0) IN
            /\ api_calls' = api_calls + 1
            /\ last_req' = [filter |-> fi,
                            offset |-> offset,
                            limit |-> RequestLimit(per_resource_limit, Len(fetched)),
                            count |-> Len(fetched)]
            /\ last_resp' = [kind |-> resp.kind, size |-> Len(resp.objects),
                             next |-> resp.next]
            /\ served' = served + Len(resp.objects)
            /\ IF api_get(resp) # "none"
               THEN /\ FetchRaises(api_get(resp))
                    /\ last_loop' = NoLoop
                    /\ UNCHANGED diagnostics
               ELSE IF PageIsEmpty(resp)
               THEN /\ FetchReturns(fetched, "empty page")
                    /\ last_loop' = NoLoop
                    /\ UNCHANGED diagnostics
               ELSE /\ last_loop' = [outcome |-> loop.outcome, seen |-> loop.seen,
                                     skipped |-> loop.skipped]
                    /\ diagnostics' = diagnostics + loop.skipped
                    /\ IF loop.outcome = "return"
                       THEN FetchReturns(loop.fetched, "cap")
                       ELSE IF loop.outcome # "exhausted"
                       THEN FetchRaises(loop.outcome)
                       ELSE IF ~HasNext(resp)
                       THEN FetchReturns(loop.fetched, "no next")
                       ELSE /\ fetched' = loop.fetched
                            /\ offset' = NextOffset(offset, resp.objects)
                            /\ UNCHANGED <<pc, exit, fi, contests, last_returned, returns>>
    /\ UNCHANGED <<entry, has_credentials, resources, per_resource_limit, max_contests,
                   resource_filters, ics_input, generator_invoked, output_written,
                   rs, dd, fl, pr>>

\* clist_to_ics.main lines 97-116, clist_build.main lines 43-57: the empty check,
\* deduplicate, sort, truncate (clist_to_ics only), generate_ics, write the file.
Finish ==
    /\ pc = "fetched"
    /\ pc' = "exited"
    /\ IF NothingFetched(contests)
       THEN /\ exit' = IF entry = "cli" THEN SysExit("No contests retrieved")
                       ELSE Returned("No contests found")
            /\ UNCHANGED <<ics_input, generator_invoked, output_written>>
       ELSE LET deduped == sort_by_start(deduplicate_contests(contests)) IN
            /\ ics_input' = IF entry = "cli" THEN Truncate(deduped, max_contests)
                            ELSE deduped
            /\ generator_invoked' = TRUE
            /\ output_written' = TRUE
            /\ exit' = Returned("Wrote")
    /\ UNCHANGED <<entry, has_credentials, resources, per_resource_limit, max_contests,
                   resource_filters, fi, fetched, offset, contests, served, api_calls,
                   returns, last_req, last_resp, last_loop, last_returned, diagnostics,
                   rs, dd, fl, pr>>

Next == Startup \/ FetchPage \/ Finish

Spec == Init /\ [][Next]_vars

-----------------------------------------------------------------------------
(* The merge of main on its own: clist_to_ics.main from the return of      *)
(* fetch_contests_for_resources on, for every list the fetch can return.   *)

AllContests == {Contest(i, s, s + 1) : i \in 1..MaxMergedId, s \in 1..MaxStart}

ContestLists == UNION {[1..k -> AllContests] : k \in 0..MaxMerged}

\* the state after one filter, no per-resource cap, one page without a next
InitMerge ==
    /\ entry = "cli"
    /\ has_credentials = TRUE
    /\ resources = <<<<"c", "f">>>>
    /\ per_resource_limit = 0
    /\ max_contests \in 0..MaxContests
    /\ pc = "fetched"
    /\ exit = Running
    /\ resource_filters = resolve_resource_filters(resources).resolved
    /\ fi = 1
    /\ fetched = <<>>
    /\ offset = 0
    /\ contests \in ContestLists
    /\ served = Len(contests)
    /\ api_calls = 1
    /\ returns = 1
    /\ last_req = [filter |-> 1, offset |-> 0, limit |-> PAGE_SIZE, count |-> 0]
    /\ last_resp = [kind |-> "page", size |-> Len(contests), next |-> "none"]
    /\ last_loop = IF contests = <<>> THEN NoLoop
                   ELSE [outcome |-> "exhausted", seen |-> Len(contests), skipped |-> 0]
    /\ last_returned = [filter |-> 1, size |-> Len(contests),
                        cause |-> IF contests = <<>> THEN "empty page" ELSE "no next"]
    /\ diagnostics = 0
    /\ ics_input = <<>>
    /\ generator_invoked = FALSE
    /\ output_written = FALSE
    /\ rs = IdleRs
    /\ pr = IdlePr
    /\ dd = IdleDd
    /\ fl = IdleFl

NextMerge == Finish

SpecMerge == InitMerge /\ [][NextMerge]_vars

-----------------------------------------------------------------------------
(* resolve_resource_filters on its own, one loop iteration per step        *)

TokenPool ==
    { <<"c", "f">>,
      <<" ", "C", "F", " ">>,
      <<"c", "o", "d", "e", "f", "o", "r", "c", "e", "s">>,
      <<"c", "o", "d", "e", "f", "o", "r", "c", "e", "s", ".", "c", "o", "m">>,
      <<"C", "o", "d", "e", "f", "o", "r", "c", "e", "s", ".", "c", "o", "m">>,
      <<"l", "c">>,
      <<"7">>,
      <<"0", "0", "7">>,
      <<"1", ".", "5">>,
      <<"x", ".", "y", "\t">>,
      <<"f", "o", "o">>,
      <<" ", " ">>,
      <<>> }

TokenLists == UNION {[1..k -> TokenPool] : k \in 0..MaxTokens}

InitResolve ==
    /\ entry = "cli"
    /\ has_credentials = TRUE
    /\ resources \in TokenLists
    /\ per_resource_limit = 0
    /\ max_contests = 0
    /\ PipelineStart
    /\ rs = [resources |-> resources, i |-> 1, st |-> ResolveStart, pc |-> "loop"]
    /\ pr = IdlePr
    /\ dd = IdleDd
    /\ fl = IdleFl

\* lines 187-207: the loop body for the next token
ResolveIterate ==
    /\ rs.pc = "loop"
    /\ rs.i <= Len(rs.resources)
    /\ LET st2 == ResolveIteration(rs.st, rs.resources[rs.i]) IN
       rs' = [rs EXCEPT !.st = st2,
                        !.i = @ + 1,
                        !.pc = IF st2.error.type # "none" THEN "raised" ELSE "loop"]
    /\ UNCHANGED <<pipeline_vars, dd, fl, pr>>

\* lines 209-212: after the loop
ResolveReturn ==
    /\ rs.pc = "loop"
    /\ rs.i > Len(rs.resources)
    /\ LET st2 == ResolveEnd(rs.st) IN
       rs' = [rs EXCEPT !.st = st2,
                        !.pc = IF st2.error.type # "none" THEN "raised" ELSE "returned"]
    /\ UNCHANGED <<pipeline_vars, dd, fl, pr>>

NextResolve == ResolveIterate \/ ResolveReturn

SpecResolve == InitResolve /\ [][NextResolve]_vars

-----------------------------------------------------------------------------
(* deduplicate_contests on its own, one loop iteration per step            *)

InitDedup ==
    /\ entry = "cli"
    /\ has_credentials = TRUE
    /\ resources = <<<<"c", "f">>>>
    /\ per_resource_limit = 0
    /\ max_contests = 0
    /\ PipelineStart
    /\ rs = IdleRs
    /\ pr = IdlePr
    /\ \E cs \in ContestLists :
          dd = [contests |-> cs, i |-> 1, by_id |-> <<>>, result |-> <<>>, pc |-> "loop"]
    /\ fl = IdleFl

\* lines 390-391
DedupIterate ==
    /\ dd.pc = "loop"
    /\ dd.i <= Len(dd.contests)
    /\ dd' = [dd EXCEPT !.by_id = DictSet(@, dd.contests[dd.i]), !.i = @ + 1]
    /\ UNCHANGED <<pipeline_vars, rs, fl, pr>>

\* line 392
DedupReturn ==
    /\ dd.pc = "loop"
    /\ dd.i > Len(dd.contests)
    /\ dd' = [dd EXCEPT !.result = dd.by_id, !.pc = "done"]
    /\ UNCHANGED <<pipeline_vars, rs, fl, pr>>

NextDedup == DedupIterate \/ DedupReturn

SpecDedup == InitDedup /\ [][NextDedup]_vars

-----------------------------------------------------------------------------
(* fold_ics_line.  Characters are code points.                             *)

CR == 13
LF == 10
SPACE == 32
FOLD_WIDTH == 75       \* line[:75], line[75:], len(line) <= 75
CONT_WIDTH == 74       \* remainder[:74], remainder[74:]

\* s[:n] and s[n:]
Take(s, n) == SubSeq(s, 1, Min(n, Len(s)))
Drop(s, n) == SubSeq(s, n + 1, Len(s))

\* "\r\n".join(segments)
RECURSIVE Join(_)
Join(segments) ==
    IF segments = <<>> THEN <<>>
    ELSE IF Len(segments) = 1 THEN segments[1]
    ELSE segments[1] \o <<CR, LF>> \o Join(Tail(segments))

\* line 438
FitsOneLine(line) == Len(line) <= FOLD_WIDTH

\* line 443: the continuation segment cut from remainder
ContinuationSegment(remainder) == <<SPACE>> \o Take(remainder, CONT_WIDTH)

\* the remainder advanced by the width of the whole segment, space included
AfterSegmentWithSpace(remainder) == Drop(remainder, CONT_WIDTH + 1)

\* line 444: what is left of remainder
AfterSegment(remainder) == Drop(remainder, CONT_WIDTH)

RECURSIVE FoldLoop(_, _)
FoldLoop(segments, remainder) ==
    IF remainder = <<>> THEN segments
    ELSE FoldLoop(Append(segments, ContinuationSegment(remainder)),
                  AfterSegment(remainder))

fold_ics_line(line) ==
    IF FitsOneLine(line) THEN line
    ELSE Join(FoldLoop(<<Take(line, FOLD_WIDTH)>>, Drop(line, FOLD_WIDTH)))

\* the lines folded: every length up to MaxLineLen, made of distinct characters, of
\* spaces only, or of a run of CR, LF, space and a letter
LineKinds == {"distinct", "spaces", "crlf"}

LineOf(n, kind) ==
    [i \in 1..n |->
        IF kind = "distinct" THEN 1000 + i
        ELSE IF kind = "spaces" THEN SPACE
        ELSE <<CR, LF, SPACE, 65>>[(i % 4) + 1]]

InitFold ==
    /\ entry = "cli"
    /\ has_credentials = TRUE
    /\ resources = <<<<"c", "f">>>>
    /\ per_resource_limit = 0
    /\ max_contests = 0
    /\ PipelineStart
    /\ rs = IdleRs
    /\ pr = IdlePr
    /\ dd = IdleDd
    /\ \E n \in 0..MaxLineLen, kind \in LineKinds :
          fl = [line |-> LineOf(n, kind), segments |-> <<>>, remainder |-> <<>>,
                result |-> <<>>, pc |-> "start"]

\* lines 438-441
FoldStart ==
    /\ fl.pc = "start"
    /\ fl' = IF FitsOneLine(fl.line)
             THEN [fl EXCEPT !.result = fl.line, !.pc = "done"]
             ELSE [fl EXCEPT !.segments = <<Take(fl.line, FOLD_WIDTH)>>,
                             !.remainder = Drop(fl.line, FOLD_WIDTH),
                             !.pc = "loop"]
    /\ UNCHANGED <<pipeline_vars, rs, dd, pr>>

\* lines 442-444: one round of "while remainder"
FoldIterate ==
    /\ fl.pc = "loop"
    /\ fl.remainder # <<>>
    /\ fl' = [fl EXCEPT !.segments = Append(@, ContinuationSegment(fl.remainder)),
                        !.remainder = AfterSegment(@)]
    /\ UNCHANGED <<pipeline_vars, rs, dd, pr>>

\* line 445
FoldReturn ==
    /\ fl.pc = "loop"
    /\ fl.remainder = <<>>
    /\ fl' = [fl EXCEPT !.result = Join(fl.segments), !.pc = "done"]
    /\ UNCHANGED <<pipeline_vars, rs, dd, pr>>

NextFold == FoldStart \/ FoldIterate \/ FoldReturn

SpecFold == InitFold /\ [][NextFold]_vars

-----------------------------------------------------------------------------
(* parse_contest on its own, for the payload shapes the API can send       *)

TextValues == { NoText,                               \* absent or null
                Text(<<>>),                           \* ""
                Text(<<" ", "\t">>),                  \* whitespace only
                Text(<<" ", "D", "2", " ">>) }        \* padded text

ResourceValues ==
    {NoResource}
        \cup {StrResource(v.text) : v \in TextValues \ {NoText}}
        \cup {DictResource(n, s, h, i) :
                 n \in TextValues, s \in TextValues, h \in TextValues,
                 i \in {Absent, Field(3)}}

FullPayloads ==
    {FullPayload(id, start, Field(2), event, title, resource, resource_id) :
        id \in {Field(1), Absent, Malformed},
        start \in {Field(1), Absent},
        event \in TextValues,
        title \in TextValues,
        resource \in ResourceValues,
        resource_id \in {Absent, Field(7), Malformed}}

InitParse ==
    /\ entry = "cli"
    /\ has_credentials = TRUE
    /\ resources = <<<<"c", "f">>>>
    /\ per_resource_limit = 0
    /\ max_contests = 0
    /\ PipelineStart
    /\ rs = IdleRs
    /\ dd = IdleDd
    /\ fl = IdleFl
    /\ \E payload \in FullPayloads :
          pr = [payload |-> payload, result |-> IdlePr.result, pc |-> "start"]

\* one call of parse_contest
ParseCall ==
    /\ pr.pc = "start"
    /\ pr' = [pr EXCEPT !.result = parse_contest_full(pr.payload), !.pc = "done"]
    /\ UNCHANGED <<pipeline_vars, rs, dd, fl>>

NextParse == ParseCall

SpecParse == InitParse /\ [][NextParse]_vars

-----------------------------------------------------------------------------
(* Claims about the fetch and the pipeline, checked under Spec             *)

\* C1: with per_resource_limit = L > 0, whatever pages the API serves (larger than
\* the requested limit, with unparseable records), a fetch never returns more than
\* L records, returns in the very round in which the L-th record is accumulated,
\* also in the middle of a page, and issues no request once L records are held.
C1_CapIsAuthoritative ==
    per_resource_limit > 0 =>
        /\ Len(fetched) < per_resource_limit
        /\ last_returned.size <= per_resource_limit
        /\ api_calls > 0 => last_req.count < per_resource_limit
        /\ last_loop.outcome = "return" =>
               /\ last_returned.filter = last_req.filter
               /\ last_returned.cause = "cap"
               /\ last_returned.size = per_resource_limit
               /\ last_loop.seen <= last_resp.size

\* a fetch returned at the cap in the middle of a page
C1_Witness ==
    /\ per_resource_limit > 0
    /\ last_loop.outcome = "return"
    /\ last_loop.seen < last_resp.size
    /\ last_returned.size = per_resource_limit

\* C2: a raw object that fails to parse (no id, start or end, a malformed one, an
\* unparseable timestamp) is dropped with a diagnostic and the fetch goes on: no
\* parse failure leaves the for loop over the page or ends the run.
C2_UnparseableRecordsAreDropped ==
    /\ last_loop.outcome \in {"none", "exhausted", "return"}
    /\ last_loop.outcome = "exhausted" => last_loop.seen = last_resp.size
    /\ exit.via = "uncaught" => exit.what \in {"ClistApiError", "UnicodeDecodeError"}

\* C3: a failed page request is issued once, makes fetch_contests_for_resource
\* return nothing (the error leaves main uncaught, the records accumulated so far
\* go nowhere), and no request follows it, for this filter or a later one.
C3_ApiFailurePropagates ==
    [][ /\ (api_calls' # api_calls /\ last_resp'.kind \in ApiFailures) =>
               /\ api_calls' = api_calls + 1
               /\ returns' = returns
               /\ contests' = contests
               /\ pc' = "exited"
               /\ exit'.via = "uncaught"
               /\ exit'.what \in {"ClistApiError", "UnicodeDecodeError"}
               /\ exit'.code = 1
               /\ ~output_written'
        /\ last_resp.kind \in ApiFailures =>
               /\ api_calls' = api_calls
               /\ returns' = returns
               /\ ~output_written' ]_vars

\* a request failed on a later page of a filter that is not the last one, with
\* records already accumulated
C3_Witness ==
    /\ last_resp.kind \in ApiFailures
    /\ api_calls >= 2
    /\ fetched # <<>>
    /\ fi < Len(resource_filters)
    /\ pc = "exited"

\* C4: the generator runs and the output file is written only after the resolution
\* succeeded, every resolved filter was fetched to its return without an API error
\* and the merged list is non-empty; after a resolution failure, an API failure or
\* an empty merged list nothing is generated or written.
C4_OutputOnlyAfterFullAssembly ==
    /\ generator_invoked = output_written
    /\ output_written =>
           /\ has_credentials
           /\ resolve_resource_filters(resources).error.type = "none"
           /\ resource_filters = resolve_resource_filters(resources).resolved
           /\ returns = Len(resource_filters)
           /\ last_returned.filter = Len(resource_filters)
           /\ last_resp.kind \notin ApiFailures
           /\ contests # <<>>
           /\ ics_input # <<>>
           /\ exit = Returned("Wrote")
    /\ (exit.code = 1 \/ contests = <<>>) => (~generator_invoked /\ ~output_written)

\* the file was written after two filters and three requests
C4_Witness ==
    /\ output_written
    /\ Len(resource_filters) >= 2
    /\ api_calls >= 3

\* C5: a run whose merged list is empty after every filter was fetched ends as a
\* non-error outcome in both entry points: main returns, the exit status is zero.
C5_EmptyRunExitsSuccessfully ==
    (pc = "exited" /\ resource_filters # <<>> /\ returns = Len(resource_filters)
        /\ contests = <<>>)
    => (exit.code = 0 /\ exit.via = "return" /\ ~output_written)

\* C9: a fetch returns what it has accumulated as soon as a page is empty or has no
\* next, and goes on to another request as long as the page is non-empty, has a
\* next and the cap is not reached.
C9_StopConditions ==
    (api_calls > 0 /\ last_resp.kind = "page") =>
        /\ (last_resp.size = 0 \/ last_resp.next = "none") =>
               last_returned.filter = last_req.filter
        /\ (last_resp.size > 0 /\ last_resp.next = "url" /\ last_loop.outcome # "return") =>
               (pc = "fetching" /\ fi = last_req.filter)

-----------------------------------------------------------------------------
(* Claims about deduplicate_contests (SpecDedup) and the merge (SpecMerge) *)

IdsOf(cs) == {cs[i].contest_id : i \in DOMAIN cs}

FirstIndex(cs, id) == CHOOSE i \in DOMAIN cs :
    cs[i].contest_id = id /\ \A j \in DOMAIN cs : cs[j].contest_id = id => i <= j

LastIndex(cs, id) == CHOOSE i \in DOMAIN cs :
    cs[i].contest_id = id /\ \A j \in DOMAIN cs : cs[j].contest_id = id => j <= i

\* C6: deduplicate_contests returns one record per contest_id of its input, the
\* last one with that id in input order, and lists the ids in the order of their
\* first occurrence.
C6_LastWriteWinsFirstSeenOrder ==
    dd.pc = "done" =>
        /\ IdsOf(dd.result) = IdsOf(dd.contests)
        /\ Len(dd.result) = Cardinality(IdsOf(dd.contests))
        /\ \A k \in DOMAIN dd.result :
               dd.result[k] = dd.contests[LastIndex(dd.contests, dd.result[k].contest_id)]
        /\ \A j, k \in DOMAIN dd.result :
               j < k => FirstIndex(dd.contests, dd.result[j].contest_id)
                            < FirstIndex(dd.contests, dd.result[k].contest_id)

\* an id came twice with different records, after another id came in between
C6_Witness ==
    /\ dd.pc = "done"
    /\ Len(dd.result) >= 2
    /\ \E i, j, k \in DOMAIN dd.contests :
          /\ i < j /\ j < k
          /\ dd.contests[i].contest_id = dd.contests[k].contest_id
          /\ dd.contests[i] # dd.contests[k]
          /\ dd.contests[j].contest_id # dd.contests[i].contest_id

IndexIn(cs, c) == CHOOSE i \in DOMAIN cs : cs[i] = c

\* C7: the list clist_to_ics.main hands to generate_ics holds records of the
\* deduplicated list, in ascending start order, records of equal start in the order
\* of the deduplicated list; it is all of that list when max_contests = 0 and its
\* first max_contests records in that order when max_contests > 0, so a record left
\* out starts no earlier than any record kept.
C7_SortedStableTruncated ==
    (pc = "exited" /\ generator_invoked /\ entry = "cli") =>
        LET deduped == deduplicate_contests(contests)
            kept == {ics_input[i] : i \in DOMAIN ics_input}
            all == {deduped[i] : i \in DOMAIN deduped}
        IN /\ kept \subseteq all
           /\ Cardinality(kept) = Len(ics_input)
           /\ Len(ics_input) = IF max_contests = 0 THEN Len(deduped)
                               ELSE Min(max_contests, Len(deduped))
           /\ \A i, j \in DOMAIN ics_input :
                  i < j => /\ ics_input[i].start <= ics_input[j].start
                           /\ ics_input[i].start = ics_input[j].start =>
                                  IndexIn(deduped, ics_input[i]) < IndexIn(deduped, ics_input[j])
           /\ \A d \in all \ kept : \A c \in kept :
                  /\ c.start <= d.start
                  /\ c.start = d.start => IndexIn(deduped, c) < IndexIn(deduped, d)

\* a truncation that cut between two records of equal start, after a sort that had
\* to reorder
C7_Witness ==
    /\ pc = "exited" /\ generator_invoked /\ entry = "cli"
    /\ max_contests > 0
    /\ LET deduped == deduplicate_contests(contests) IN
       /\ Len(deduped) > max_contests
       /\ Len(deduped) < Len(contests)
       /\ \E i, j \in DOMAIN deduped : i < j /\ deduped[j].start < deduped[i].start
       /\ \E i \in DOMAIN deduped :
             deduped[i] \notin {ics_input[k] : k \in DOMAIN ics_input}
             /\ deduped[i].start = ics_input[Len(ics_input)].start

-----------------------------------------------------------------------------
(* Claim about resolve_resource_filters, checked under SpecResolve         *)

\* the filters the three rules give a trimmed token, in rule order: none when no
\* rule matches
RuleFilters(value) ==
    LET hosts == {p[2] : p \in {q \in RESOURCE_ALIASES : q[1] = lower(value)}} IN
    IF hosts # {} THEN {ResourceFilter(h) : h \in hosts}
    ELSE IF isdigit(value) THEN {ResourceIdFilter(int(value))}
    ELSE IF has_dot(value) THEN {ResourceFilter(value)}
    ELSE {}

SetMin(S) == CHOOSE x \in S : \A y \in S : x <= y

-----------------------------------------------------------------------------
(* Claim about fold_ics_line, checked under SpecFold                       *)

\* The text left when, segment by segment, the CR LF put before a continuation
\* segment and the space that starts it are taken out of folded; lens are the
\* lengths of the segments.  ok: folded has exactly that shape.
RECURSIVE Unfold(_, _, _)
Unfold(folded, lens, j) ==
    IF j > Len(lens) THEN [ok |-> folded = <<>>, text |-> <<>>]
    ELSE IF j = 1
    THEN LET rest == Unfold(SubSeq(folded, lens[1] + 1, Len(folded)), lens, 2)
         IN [ok |-> Len(folded) >= lens[1] /\ rest.ok,
             text |-> SubSeq(folded, 1, Min(lens[1], Len(folded))) \o rest.text]
    ELSE IF Len(folded) < lens[j] + 2 THEN [ok |-> FALSE, text |-> <<>>]
    ELSE LET rest == Unfold(SubSeq(folded, lens[j] + 3, Len(folded)), lens, j + 1)
         IN [ok |-> /\ folded[1] = 13 /\ folded[2] = 10 /\ folded[3] = 32
                    /\ rest.ok,
             text |-> SubSeq(folded, 4, lens[j] + 2) \o rest.text]

\* C10: fold_ics_line returns a line of at most 75 characters unchanged; a longer
\* one comes out as its first 75 characters followed by continuation segments, each
\* a CR LF, one space and 1 to 74 characters of the line, and taking the inserted
\* CR LF and space out again gives the line back exactly.
C10_FoldRoundTrip ==
    fl.pc = "done" =>
        IF Len(fl.line) <= 75 THEN fl.result = fl.line
        ELSE LET lens == [j \in DOMAIN fl.segments |-> Len(fl.segments[j])] IN
             /\ Len(lens) >= 2
             /\ lens[1] = 75
             /\ \A j \in 2..Len(lens) : lens[j] >= 2 /\ lens[j] <= 75
             /\ Len(fl.result) = Len(fl.line) + 3 * (Len(lens) - 1)
             /\ Unfold(fl.result, lens, 1) = [ok |-> TRUE, text |-> fl.line]

\* a line folded into three segments, the last one short, whose own text has a CR,
\* LF and space where the fold falls
C10_Witness ==
    /\ fl.pc = "done"
    /\ Len(fl.segments) = 3
    /\ Len(fl.segments[3]) < 75
    /\ fl.line[76] = 13 /\ fl.line[77] = 10 /\ fl.line[78] = 32

-----------------------------------------------------------------------------
(* Claim about parse_contest, checked under SpecParse                      *)

\* C11: every Contest that parse_contest creates has a non-empty title and a
\* non-empty resource_name, whatever the event, title and resource fields of the
\* payload are (absent, empty, whitespace only).
C11_TitleAndResourceNameNonEmpty ==
    (pr.pc = "done" /\ pr.result.raised = "none") =>
        /\ pr.result.contest.title # <<>>
        /\ pr.result.contest.resource_name # <<>>

-----------------------------------------------------------------------------
(* Claim about the requests of one fetch, checked under Spec               *)

\* C12: in the fetch for one filter the first request has offset 0 and every later
\* request has the offset of the request before it plus the number of objects that
\* request's page held, dropped ones included, so that offsets grow strictly; the
\* limit parameter is PAGE_SIZE when per_resource_limit is 0 and otherwise
\* min(PAGE_SIZE, per_resource_limit - records accumulated so far), at least 1.
C12_OffsetsAndLimits ==
    [][ api_calls' = api_calls + 1 =>
          /\ last_req'.filter = fi
          /\ IF api_calls = 0 \/ last_req.filter # fi
             THEN last_req'.offset = 0
             ELSE /\ last_req'.offset = last_req.offset + last_resp.size
                  /\ last_req'.offset > last_req.offset
          /\ IF per_resource_limit = 0
             THEN last_req'.limit = PAGE_SIZE
             ELSE /\ last_req'.limit = Min(PAGE_SIZE, per_resource_limit - Len(fetched))
                  /\ last_req'.limit >= 1 ]_vars

\* a later request of a capped fetch whose earlier pages held a dropped object
C12_Witness ==
    /\ per_resource_limit > 0
    /\ api_calls >= 2
    /\ last_req.offset > 0
    /\ last_req.count < last_req.offset
    /\ last_req.limit = per_resource_limit - last_req.count

============================================================================
